---- MODULE Spec2Model ----
(***************************************************************************)
(* A model of the transport core of hcloud-go (src/hcloud/client.go):      *)
(* the pagination driver Client.all with its rate-limit retry loop, the    *)
(* request executor Client.Do with metadata parsing and error              *)
(* classification, and the backoff policies.                               *)
(***************************************************************************)
EXTENDS Integers, Sequences, FiniteSets, TLC

\* ------------------------------------------------------------------ bounds
\* Highest page number the server knows.
MaxPage == 3
\* Most calls of the page fetcher within one Client.all call.
MaxFetches == 5

\* ------------------------------------------------------------ error values
\* An error value of Go, as a record of uniform shape. kind "nil" is the nil
\* error, kind "Error" is the typed hcloud.Error, the other kinds are errors
\* that are not of type Error.
NoError == [kind |-> "nil", Code |-> "", Message |-> "", Status |-> 0]

\* hcloud.Error{Code, Message}
APIError(code, message) ==
    [kind |-> "Error", Code |-> code, Message |-> message, Status |-> 0]

\* fmt.Errorf("hcloud: server responded with status code %d", status)
StatusError(status) ==
    [kind |-> "status", Code |-> "", Message |-> "", Status |-> status]

\* Any other error that is not an hcloud.Error (transport failure, body read
\* failure, meta data failure, decode failure).
PlainError(kind) == [kind |-> kind, Code |-> "", Message |-> "", Status |-> 0]

ErrorCodeServiceError == "service_error"
ErrorCodeLimitReached == "limit_reached"
ErrorCodeUnknownError == "unknown_error"

\* ----------------------------------------------------- response meta data
\* *ResponseMetaPagination: a pointer, nil or a struct of six ints.
ZeroPagination ==
    [Page |-> 0, PerPage |-> 0, PreviousPage |-> 0,
     NextPage |-> 0, LastPage |-> 0, TotalEntries |-> 0]

NilPagination == [nil |-> TRUE, v |-> ZeroPagination]

PaginationPtr(p) == [nil |-> FALSE, v |-> p]

\* ResponseMetaRatelimit; Reset is kept as its unix time, HasReset tells the
\* zero time.Time from time.Unix(0, 0).
ZeroRatelimit == [Limit |-> 0, Remaining |-> 0, Reset |-> 0, HasReset |-> FALSE]

ZeroMeta == [Pagination |-> NilPagination, Ratelimit |-> ZeroRatelimit]

\* ------------------------------------------------------------------ backoff
\* A float64 base is kept as an exact fraction num/den; a time.Duration is an
\* int64 count of time units.
RECURSIVE IntPow(_, _)
IntPow(x, n) == IF n = 0 THEN 1 ELSE x * IntPow(x, n - 1)

\* time.Duration(math.Pow(b, float64(retries))): the float64 power converted
\* to the integer type Duration, which drops the fractional part.
PowAsDuration(b, retries) == IntPow(b.num, retries) \div IntPow(b.den, retries)

\* ConstantBackoff(d)(retries)
ConstantBackoff(d, retries) == d

\* ExponentialBackoff(b, d)(retries)
ExponentialBackoff(b, d, retries) == PowAsDuration(b, retries) * d

\* A BackoffFunc value: the policy and the parameters its closure captured.
ConstantPolicy(d) == [policy |-> "constant", b |-> [num |-> 1, den |-> 1], d |-> d]
ExponentialPolicy(num, den, d) ==
    [policy |-> "exponential", b |-> [num |-> num, den |-> den], d |-> d]

\* Calling a BackoffFunc value f with the argument retries.
CallBackoffFunc(f, retries) ==
    IF f.policy = "constant"
    THEN ConstantBackoff(f.d, retries)
    ELSE ExponentialBackoff(f.b, f.d, retries)

\* The backoff functions a client is configured with in the driver's model:
\* NewClient's default shape ExponentialBackoff(2, d), and what
\* WithBackoffFunc may set.
BackoffFuncs ==
    {ExponentialPolicy(2, 1, 1), ExponentialPolicy(3, 2, 1), ConstantPolicy(0)}

\* ---------------------------------------------------------------- responses
\* *Response: nil, or the HTTP response with its parsed meta data. Page is
\* the page the request asked for, Items what the body lists.
NilResponse == [nil |-> TRUE, Page |-> 0, Items |-> <<>>, Meta |-> ZeroMeta]

\* The items the server lists on page p: two per page, numbered in page order.
PageItems(p) == <<2 * p - 1, 2 * p>>

\* What the server may report as pagination of page p: none, or next_page n.
PagePaginations(p) ==
    {NilPagination}
        \cup {PaginationPtr([ZeroPagination EXCEPT !.Page = p, !.NextPage = n]) :
                n \in 0..MaxPage}

PageResponse(p, pagination) ==
    [nil |-> FALSE, Page |-> p, Items |-> PageItems(p),
     Meta |-> [Pagination |-> pagination, Ratelimit |-> ZeroRatelimit]]

\* A response that comes along with an error (Client.Do returns both).
ErrorResponse(p) ==
    [nil |-> FALSE, Page |-> p, Items |-> <<>>, Meta |-> ZeroMeta]

\* The errors a page fetcher may fail with.
FetcherErrors ==
    {APIError(ErrorCodeLimitReached, "m"), APIError("not_found", "m"),
     StatusError(500), PlainError("transport")}

\* ------------------------------------------------------------ JSON bodies
\* A response body is kept as what encoding/json sees in it: whether the
\* bytes are a JSON document and of which kind, and the values under the keys
\* the client reads. A JSON value carries its type t, and s or n if it is a
\* string or a number.
JAbsent == [t |-> "absent", s |-> "", n |-> 0]
JNull == [t |-> "null", s |-> "", n |-> 0]
JStr(s) == [t |-> "string", s |-> s, n |-> 0]
JNum(n) == [t |-> "number", s |-> "", n |-> n]

\* The value under "error": absent, null, a value that is no object, or an
\* object with the values under "code" and "message".
JError(t, code, message) == [t |-> t, code |-> code, message |-> message]

\* The value under "pagination" (within "meta"), with its six keys.
JPagination(t, page, next_page) ==
    [t |-> t, page |-> page, per_page |-> JAbsent, previous_page |-> JAbsent,
     next_page |-> next_page, last_page |-> JAbsent, total_entries |-> JAbsent]

\* The value under "meta".
JMeta(t, pagination) == [t |-> t, pagination |-> pagination]

\* doc: "object" (a JSON object), "array" (valid JSON, but no object) or
\* "garbage" (no JSON: empty, HTML). payload: what lies under the resource's
\* own key: "absent", a value "p1" or "p2", or "illtyped".
Body(doc, error, meta, payload) ==
    [doc |-> doc, error |-> error, meta |-> meta, payload |-> payload]

\* json.Unmarshal into a string field: [ok, v].
unmarshalString(j) ==
    CASE j.t \in {"absent", "null"} -> [ok |-> TRUE, v |-> ""]
      [] j.t = "string" -> [ok |-> TRUE, v |-> j.s]
      [] OTHER -> [ok |-> FALSE, v |-> ""]

\* json.Unmarshal into an int field: [ok, v].
unmarshalInt(j) ==
    CASE j.t \in {"absent", "null"} -> [ok |-> TRUE, v |-> 0]
      [] j.t = "number" -> [ok |-> TRUE, v |-> j.n]
      [] OTHER -> [ok |-> FALSE, v |-> 0]

\* json.Unmarshal(body, &apiError) in errorFromResponse: [ok, Code, Message].
unmarshalAPIError(body) ==
    LET bad == [ok |-> FALSE, Code |-> "", Message |-> ""]
        c == unmarshalString(body.error.code)
        m == unmarshalString(body.error.message)
    IN  CASE body.doc # "object" -> bad
          [] body.error.t \in {"absent", "null"} ->
                [ok |-> TRUE, Code |-> "", Message |-> ""]
          [] body.error.t # "object" -> bad
          [] OTHER -> IF c.ok /\ m.ok
                      THEN [ok |-> TRUE, Code |-> c.v, Message |-> m.v]
                      ELSE bad

\* ResponseMetaPagination.UnmarshalJSON(data): [ok, v], v the struct after.
PaginationUnmarshalJSON(j) ==
    LET page == unmarshalInt(j.page)
        perPage == unmarshalInt(j.per_page)
        previousPage == unmarshalInt(j.previous_page)
        nextPage == unmarshalInt(j.next_page)
        lastPage == unmarshalInt(j.last_page)
        totalEntries == unmarshalInt(j.total_entries)
    IN  CASE j.t = "null" -> [ok |-> TRUE, v |-> ZeroPagination]
          [] j.t # "object" -> [ok |-> FALSE, v |-> ZeroPagination]
          [] OTHER ->
                IF page.ok /\ perPage.ok /\ previousPage.ok /\ nextPage.ok
                    /\ lastPage.ok /\ totalEntries.ok
                THEN [ok |-> TRUE,
                      v |-> [Page |-> page.v, PerPage |-> perPage.v,
                             PreviousPage |-> previousPage.v,
                             NextPage |-> nextPage.v, LastPage |-> lastPage.v,
                             TotalEntries |-> totalEntries.v]]
                ELSE [ok |-> FALSE, v |-> ZeroPagination]

\* json.Unmarshal(body, &m) in readMeta: [ok, v], v being m.Meta.Pagination.
unmarshalMeta(body) ==
    LET bad == [ok |-> FALSE, v |-> ZeroPagination]
    IN  CASE body.doc # "object" -> bad
          [] body.meta.t \in {"absent", "null"} ->
                [ok |-> TRUE, v |-> ZeroPagination]
          [] body.meta.t # "object" -> bad
          [] body.meta.pagination.t = "absent" ->
                [ok |-> TRUE, v |-> ZeroPagination]
          [] OTHER -> PaginationUnmarshalJSON(body.meta.pagination)

\* ----------------------------------------------------------------- headers
\* A header value is a sequence of pieces of text; <<>> is the header that
\* is missing (Header.Get gives "").
HasPrefix(s, prefix) ==
    Len(s) >= Len(prefix) /\ SubSeq(s, 1, Len(prefix)) = prefix

\* strings.HasPrefix(Header.Get("Content-Type"), "application/json")
\* isJSON with the bug of taking only the bare media type for JSON.
isJSON_exact(contentType) == contentType = <<"application/json">>

isJSON(contentType) == HasPrefix(contentType, <<"application/json">>)

\* A rate-limit header value as strconv sees it: "missing", "int" (the text
\* of the integer n), "garbage" (no integer) or "toobig" (an integer above
\* the range of int).
HMissing == [kind |-> "missing", n |-> 0]
HInt(n) == [kind |-> "int", n |-> n]
HGarbage == [kind |-> "garbage", n |-> 0]
HTooBig == [kind |-> "toobig", n |-> 0]

\* The width of int and int64, scaled down.
IntBits == 16
MaxInt == IntPow(2, IntBits - 1) - 1

\* strconv.Atoi(h) and strconv.ParseInt(h, 10, 64): [v, ok]. A syntax error
\* gives 0, a range error gives the nearest value of the range.
Atoi(h) ==
    CASE h.kind = "int" -> [v |-> h.n, ok |-> TRUE]
      [] h.kind = "toobig" -> [v |-> MaxInt, ok |-> FALSE]
      [] OTHER -> [v |-> 0, ok |-> FALSE]

\* Response.readMeta(body): [ok, Meta], Meta being r.Meta afterwards.
readMeta(header, body) ==
    LET limit == IF header.Limit.kind # "missing"
                 THEN Atoi(header.Limit).v ELSE 0
        remaining == IF header.Remaining.kind # "missing"
                     THEN Atoi(header.Remaining).v ELSE 0
        hasReset == header.Reset.kind # "missing" /\ Atoi(header.Reset).ok
        ratelimit == [Limit |-> limit, Remaining |-> remaining,
                      Reset |-> IF hasReset THEN Atoi(header.Reset).v ELSE 0,
                      HasReset |-> hasReset]
        m == unmarshalMeta(body)
    IN  IF isJSON(header.ContentType)
        THEN IF ~m.ok
             THEN [ok |-> FALSE,
                   Meta |-> [Pagination |-> NilPagination, Ratelimit |-> ratelimit]]
             ELSE [ok |-> TRUE,
                   Meta |-> [Pagination |-> PaginationPtr(m.v), Ratelimit |-> ratelimit]]
        ELSE [ok |-> TRUE,
              Meta |-> [Pagination |-> NilPagination, Ratelimit |-> ratelimit]]

\* errorFromResponse(resp, body): the typed Error, or NoError for nil.
errorFromResponse(header, body) ==
    LET apiError == unmarshalAPIError(body)
    IN  CASE ~isJSON(header.ContentType) -> NoError
          [] ~apiError.ok -> NoError
          [] apiError.Code = "" /\ apiError.Message = "" -> NoError
          [] OTHER -> APIError(apiError.Code, apiError.Message)

\* isErrorStatus with the bug of taking only 4xx for an error.
isErrorStatus_only4xx(status) == status >= 400 /\ status <= 499

\* resp.StatusCode >= 400 && resp.StatusCode <= 599
isErrorStatus(status) == status >= 400 /\ status <= 599

\* ---------------------------------------------------------------- Client.Do
\* An io.ReadCloser over bytes: the chunks of data from off on are unread.
BytesReader(data) == [data |-> data, off |-> 0]

\* *Response as Client.Do returns it.
NilDoResponse ==
    [nil |-> TRUE, StatusCode |-> 0, Body |-> BytesReader(<<>>), Meta |-> ZeroMeta]

DoResponse(status, reader, meta) ==
    [nil |-> FALSE, StatusCode |-> status, Body |-> reader, Meta |-> meta]

\* The decode target v: "nil", a "writer" (an io.Writer, with what was
\* written to it) or "typed" (a pointer to a struct, with the value decoded
\* into it).
Target(kind, written, value) == [kind |-> kind, written |-> written, value |-> value]

\* v after io.Copy(w, bytes.NewReader(body)) or json.Unmarshal(body, v), and
\* whether that went well: [ok, v].
decode(body, v) ==
    CASE v.kind = "nil" -> [ok |-> TRUE, v |-> v]
      [] v.kind = "writer" ->
            [ok |-> TRUE, v |-> [v EXCEPT !.written = @ \o <<body>>]]
      [] body.doc # "object" -> [ok |-> FALSE, v |-> v]
      [] body.payload = "absent" -> [ok |-> TRUE, v |-> v]
      [] body.payload = "illtyped" -> [ok |-> FALSE, v |-> v]
      [] OTHER -> [ok |-> TRUE, v |-> [v EXCEPT !.value = body.payload]]

\* ioutil.ReadAll(reader): the data not read yet, and the reader afterwards.
ReadAll(reader) ==
    [data |-> SubSeq(reader.data, reader.off + 1, Len(reader.data)),
     reader |-> [reader EXCEPT !.off = Len(reader.data)]]

\* ReadBody with the bug of leaving the drained reader as the body.
ReadBody_drained(r) ==
    [body |-> ReadAll(r.Body).data,
     resp |-> [r EXCEPT !.Body = ReadAll(r.Body).reader]]

\* r.ReadBody() on a Response r: the bytes returned and r afterwards.
ReadBody(r) ==
    [body |-> ReadAll(r.Body).data,
     resp |-> [r EXCEPT !.Body = BytesReader(ReadAll(r.Body).data)]]

\* Client.Do(r, v) when the server's answer to r is w: [resp, err, v].
\* w.transport tells whether c.httpClient.Do failed, w.read whether reading
\* the body failed.
Do(w, v) ==
    LET unread == DoResponse(w.StatusCode, BytesReader(<<>>), ZeroMeta)
        meta == readMeta(w.Header, w.Body)
        response == DoResponse(w.StatusCode, BytesReader(<<w.Body>>), meta.Meta)
        apiErr == errorFromResponse(w.Header, w.Body)
        decoded == decode(w.Body, v)
    IN  CASE w.transport = "fail" ->
                [resp |-> NilDoResponse, err |-> PlainError("transport"), v |-> v]
          [] w.read = "fail" ->
                [resp |-> unread, err |-> PlainError("read"), v |-> v]
          [] ~meta.ok ->
                [resp |-> response, err |-> PlainError("meta"), v |-> v]
          [] isErrorStatus(w.StatusCode) ->
                [resp |-> response,
                 err |-> IF apiErr = NoError
                         THEN StatusError(w.StatusCode) ELSE apiErr,
                 v |-> v]
          [] OTHER ->
                [resp |-> response,
                 err |-> IF decoded.ok THEN NoError ELSE PlainError("decode"),
                 v |-> decoded.v]

\* ------------------------------------------------------- lookup by ID
ErrorCodeNotFound == "not_found"

\* IsError(err, code): err is a typed Error with the code.
IsError(err, code) == err.kind = "Error" /\ err.Code = code

\* getRequest[Schema](ctx, client, url): Client.Do with a fresh Schema as
\* the target: [respBody, resp, err].
getRequest(w) ==
    LET r == Do(w, Target("typed", <<>>, "none"))
    IN  [respBody |-> r.v.value, resp |-> r.resp, err |-> r.err]

\* A *FloatingIP: nil, or the resource made of the schema value.
NilResource == [nil |-> TRUE, v |-> "none"]
FloatingIPFromSchema(value) == [nil |-> FALSE, v |-> value]

\* GetByID with the bug of taking every error for "not found".
GetByID_hidesErrors(w) ==
    LET r == getRequest(w)
    IN  [request |-> [resp |-> r.resp, err |-> r.err],
         resource |-> IF r.err # NoError THEN NilResource
                      ELSE FloatingIPFromSchema(r.respBody),
         resp |-> r.resp, err |-> NoError]

\* FloatingIPClient.GetByID(ctx, id) when the server's answer is w:
\* [resource, resp, err], and the outcome of its request.
GetByID(w) ==
    LET r == getRequest(w)
    IN  [request |-> [resp |-> r.resp, err |-> r.err],
         resource |-> IF r.err # NoError THEN NilResource
                      ELSE FloatingIPFromSchema(r.respBody),
         resp |-> r.resp,
         err |-> IF r.err # NoError /\ ~IsError(r.err, ErrorCodeNotFound)
                 THEN r.err ELSE NoError]

\* ------------------------------------------------------- pagination driver
VARIABLES
    backoffFunc,  \* Client.backoffFunc, set at construction
    server,       \* the pagination the server reports for each of its pages
    pc,           \* where Client.all stands: "fetch", "backoff" or "done"
    page,         \* Client.all's local page
    retries,      \* Client.all's local retries
    log,          \* the calls of the page fetcher so far, with their results
    backoffArgs,  \* the arguments c.backoff was called with, in order
    sleepLeft,    \* time units left of the time.Sleep in c.backoff
    cancelled,    \* whether the caller has cancelled the call's context
    allItems,     \* the caller's accumulator of the items of the pages
    ret           \* what Client.all returned: [resp, err]

allVars == <<backoffFunc, server, pc, page, retries, log, backoffArgs,
             sleepLeft, cancelled, allItems, ret>>

\* One call of Client.Do.
VARIABLES
    doPc,    \* "ready" before the call, "returned" after it
    doWire,  \* the server's answer to the request
    doV0,    \* the decode target v as passed
    doRet,   \* what the call returned, with v afterwards: [resp, err, v]
    doReads, \* the bodies the calls of ReadBody on the Response returned
    getRet   \* what a lookup by ID returned, with its request's outcome

doVars == <<doPc, doWire, doV0, doRet, doReads, getRet>>

\* One call of a backoff function.
VARIABLES
    boPc,   \* "ready" before the call, "returned" after it
    boArg,  \* the base b, the unit d and the argument retries
    boRet   \* the duration returned

boVars == <<boPc, boArg, boRet>>

\* Several calls of Client.all on one client.
VARIABLES
    client,  \* the Client: endpoint, token, httpClient, backoffFunc
    calls    \* for each call, its frame (the locals) and its fetches so far

ccVars == <<client, calls>>

vars == <<allVars, doVars, boVars, ccVars>>

\* isLimitReached with the bug of retrying on every typed Error.
isLimitReached_anyCode(err) == err.kind = "Error"

\* err.(Error) succeeds and err.Code == ErrorCodeLimitReached
isLimitReached(err) == err.kind = "Error" /\ err.Code = ErrorCodeLimitReached

\* isLastPage with the bug of leaving out the test of NextPage.
isLastPage_nilOnly(resp) == resp.Meta.Pagination.nil

\* resp.Meta.Pagination == nil || resp.Meta.Pagination.NextPage == 0
isLastPage(resp) ==
    resp.Meta.Pagination.nil \/ resp.Meta.Pagination.v.NextPage = 0

\* allRetry with the bug of moving on to the next page when retrying.
allRetry_skipsPage(st) == [page |-> st.page + 1, retries |-> st.retries + 1]

\* The loop variables after a rate-limited fetch: retries++; continue
allRetry(st) == [page |-> st.page, retries |-> st.retries + 1]

\* allAdvance with the bug of never going back to a page at or before the
\* current one.
allAdvance_onlyForward(st, resp) ==
    [page |-> IF resp.Meta.Pagination.v.NextPage > st.page
              THEN resp.Meta.Pagination.v.NextPage ELSE st.page + 1,
     retries |-> 0]

\* allAdvance with the bug of keeping the count of retries.
allAdvance_keepsRetries(st, resp) ==
    [page |-> resp.Meta.Pagination.v.NextPage, retries |-> st.retries]

\* allAdvance with the bug of leaving page as it is.
allAdvance_stale(st, resp) == [page |-> st.page, retries |-> 0]

\* The loop variables after a successful fetch that is not the last page:
\* retries = 0; page = resp.Meta.Pagination.NextPage
allAdvance(st, resp) ==
    [page |-> resp.Meta.Pagination.v.NextPage, retries |-> 0]

\* What Client.all returns on an error that is not retried: return nil, err
allFail(resp, err) == [resp |-> NilResponse, err |-> err]

\* What Client.all returns after the last page: return resp, nil
allReturn(resp) == [resp |-> resp, err |-> NoError]

\* The caller's closure adds a fetched page's items to its accumulator.
Accumulate(items, pageItems) == items \o pageItems

\* What a "fetch all" caller returns once Client.all has returned r.
FetchAllResult(r, items) ==
    IF r.err # NoError
    THEN [items |-> <<>>, nil |-> TRUE, err |-> r.err]
    ELSE [items |-> items, nil |-> FALSE, err |-> NoError]

\* The servers: each page reports some pagination.
Servers == {sv \in [1..MaxPage -> UNION {PagePaginations(p) : p \in 1..MaxPage}] :
               \A p \in 1..MaxPage : sv[p] \in PagePaginations(p)}

\* The results f(p) may have: the server's page p, or one of the errors. A
\* page the server does not know has no successful result.
FetcherResults(p) ==
    (IF p \in DOMAIN server
     THEN {[resp |-> PageResponse(p, server[p]), err |-> NoError]}
     ELSE {})
    \cup {[resp |-> ErrorResponse(p), err |-> e] :
            e \in FetcherErrors \ {PlainError("transport")}}
    \cup {[resp |-> NilResponse, err |-> PlainError("transport")]}

NotReturned == [resp |-> NilResponse, err |-> PlainError("not returned")]

allInit ==
    /\ backoffFunc \in BackoffFuncs
    /\ server \in Servers
    /\ pc = "fetch"
    /\ page = 1
    /\ retries = 0
    /\ log = <<>>
    /\ backoffArgs = <<>>
    /\ sleepLeft = 0
    /\ cancelled = FALSE
    /\ allItems = <<>>
    /\ ret = NotReturned

\* One turn of the loop of Client.all up to its return, its continue or its
\* call of time.Sleep: resp, err := f(page) and what follows from the result.
allIteration ==
    /\ pc = "fetch"
    /\ Len(log) < MaxFetches
    /\ \E r \in FetcherResults(page) :
        /\ log' = Append(log, [page |-> page, resp |-> r.resp, err |-> r.err])
        /\ IF r.err # NoError
           THEN /\ UNCHANGED <<allItems, page, retries>>
                /\ IF isLimitReached(r.err)
                   THEN /\ pc' = "backoff"
                        /\ backoffArgs' = Append(backoffArgs, retries)
                        /\ sleepLeft' = CallBackoffFunc(backoffFunc, retries)
                        /\ UNCHANGED ret
                   ELSE /\ pc' = "done"
                        /\ ret' = allFail(r.resp, r.err)
                        /\ UNCHANGED <<backoffArgs, sleepLeft>>
           ELSE /\ allItems' = Accumulate(allItems, r.resp.Items)
                /\ UNCHANGED <<backoffArgs, sleepLeft>>
                /\ IF isLastPage(r.resp)
                   THEN /\ pc' = "done"
                        /\ ret' = allReturn(r.resp)
                        /\ page' = page
                        /\ retries' = 0
                   ELSE /\ pc' = "fetch"
                        /\ page' = allAdvance([page |-> page, retries |-> retries], r.resp).page
                        /\ retries' = allAdvance([page |-> page, retries |-> retries], r.resp).retries
                        /\ UNCHANGED ret
    /\ UNCHANGED <<backoffFunc, server, cancelled, doVars, boVars, ccVars>>

\* One time unit of time.Sleep passes. time.Sleep takes no context: neither
\* c.backoff nor Client.all has one.
Sleep ==
    /\ pc = "backoff"
    /\ sleepLeft > 0
    /\ sleepLeft' = sleepLeft - 1
    /\ UNCHANGED <<backoffFunc, server, pc, page, retries, log, backoffArgs,
                   cancelled, allItems, ret, doVars, boVars, ccVars>>

\* Wake with the bug of a maximum of retries: after the second rate limit in
\* a row the call returns the error.
Wake_givesUp ==
    /\ pc = "backoff"
    /\ sleepLeft = 0
    /\ IF retries >= 1
       THEN /\ pc' = "done"
            /\ ret' = allFail(log[Len(log)].resp, log[Len(log)].err)
            /\ UNCHANGED <<page, retries>>
       ELSE /\ pc' = "fetch"
            /\ page' = allRetry([page |-> page, retries |-> retries]).page
            /\ retries' = allRetry([page |-> page, retries |-> retries]).retries
            /\ UNCHANGED ret
    /\ UNCHANGED <<backoffFunc, server, log, backoffArgs, sleepLeft,
                   cancelled, allItems, doVars, boVars, ccVars>>

\* time.Sleep returns: retries++; continue
Wake ==
    /\ pc = "backoff"
    /\ sleepLeft = 0
    /\ pc' = "fetch"
    /\ page' = allRetry([page |-> page, retries |-> retries]).page
    /\ retries' = allRetry([page |-> page, retries |-> retries]).retries
    /\ UNCHANGED <<backoffFunc, server, log, backoffArgs, sleepLeft,
                   cancelled, allItems, ret, doVars, boVars, ccVars>>

\* The caller cancels the context it passed at call start.
Cancel ==
    /\ pc # "done"
    /\ ~cancelled
    /\ cancelled' = TRUE
    /\ UNCHANGED <<backoffFunc, server, pc, page, retries, log, backoffArgs,
                   sleepLeft, allItems, ret, doVars, boVars, ccVars>>

\* ------------------------------------------------------ a call of Client.Do
\* Bounds of the bodies and headers tried.
MaxNextPage == 2
MaxHeaderInt == 1
MaxReads == 2

ContentTypes ==
    {<<"application/json">>, <<"application/json", "; charset=utf-8">>,
     <<"text/html">>, <<>>}

StatusCodes == {200, 399, 400, 404, 599, 600}

ErrorValues ==
    {JError(t, JAbsent, JAbsent) : t \in {"absent", "null", "string"}}
    \cup {JError("object", c, m) :
            c \in {JAbsent, JStr(""), JStr("not_found"),
                   JStr(ErrorCodeLimitReached), JNum(1)},
            m \in {JAbsent, JStr(""), JStr("x")}}

PaginationValues ==
    {JPagination(t, JAbsent, JAbsent) : t \in {"absent", "null", "string"}}
    \cup {JPagination("object", JNum(1), n) :
            n \in {JAbsent, JStr("2")} \cup {JNum(k) : k \in 0..MaxNextPage}}

MetaValues ==
    {JMeta(t, JPagination("absent", JAbsent, JAbsent)) : t \in {"absent", "string"}}
    \cup {JMeta("object", pg) : pg \in PaginationValues}

NoMeta == JMeta("absent", JPagination("absent", JAbsent, JAbsent))

Bodies ==
    {Body(doc, JError("absent", JAbsent, JAbsent), NoMeta, "absent") :
        doc \in {"array", "garbage"}}
    \cup {Body("object", e, m, p) :
            e \in ErrorValues, m \in MetaValues, p \in {"p1", "illtyped"}}

HeaderValues == {HMissing, HGarbage, HTooBig} \cup {HInt(n) : n \in 0..MaxHeaderInt}

Header(contentType, limit, remaining, reset) ==
    [ContentType |-> contentType, Limit |-> limit,
     Remaining |-> remaining, Reset |-> reset]

Wire(transport, read, status, header, body) ==
    [transport |-> transport, read |-> read, StatusCode |-> status,
     Header |-> header, Body |-> body]

\* The answers tried: every body with every status and content type and no
\* rate-limit header; every combination of rate-limit headers with a few
\* bodies; and the failures of the transport.
Wires ==
    {Wire("ok", "ok", st, Header(ct, HMissing, HMissing, HMissing), b) :
        st \in StatusCodes, ct \in ContentTypes, b \in Bodies}
    \cup {Wire("ok", "ok", st, Header(ct, l, rm, rs),
               Body(doc, JError("absent", JAbsent, JAbsent), NoMeta, "p1")) :
            st \in {200, 404}, ct \in {<<"application/json">>, <<>>},
            l \in HeaderValues, rm \in HeaderValues, rs \in HeaderValues,
            doc \in {"object", "garbage"}}
    \cup {Wire(t[1], t[2], st, Header(<<"application/json">>, l, HMissing, HMissing),
               Body("object", JError("absent", JAbsent, JAbsent), NoMeta, "p1")) :
            t \in {<<"fail", "ok">>, <<"ok", "fail">>}, st \in {200, 404},
            l \in {HMissing, HInt(1)}}

Targets ==
    {Target("nil", <<>>, "none"), Target("writer", <<>>, "none"),
     Target("typed", <<>>, "p2")}

NoDoRet == [resp |-> NilDoResponse, err |-> PlainError("not returned"),
            v |-> Target("nil", <<>>, "none")]

doIdle ==
    /\ doPc = "idle"
    /\ doWire = <<>>
    /\ doV0 = <<>>
    /\ doRet = <<>>
    /\ doReads = <<>>
    /\ getRet = <<>>

doInit ==
    /\ doPc = "ready"
    /\ doWire \in Wires
    /\ doV0 \in Targets
    /\ doRet = NoDoRet
    /\ doReads = <<>>
    /\ getRet = <<>>

\* The call Client.Do(r, v), from its start to its return.
DoCall ==
    /\ doPc = "ready"
    /\ doPc' = "returned"
    /\ doRet' = Do(doWire, doV0)
    /\ UNCHANGED <<doWire, doV0, doReads, getRet, allVars, boVars, ccVars>>

\* A call r.ReadBody() on the Response r that Client.Do returned with the
\* body buffered. (A nil Response has no body; after a failed read the body
\* is still the transport's.)
ReadBodyCall ==
    /\ doPc = "returned"
    /\ ~doRet.resp.nil
    /\ doWire.read = "ok"
    /\ Len(doReads) < MaxReads
    /\ doRet' = [doRet EXCEPT !.resp = ReadBody(doRet.resp).resp]
    /\ doReads' = Append(doReads, ReadBody(doRet.resp).body)
    /\ UNCHANGED <<doPc, doWire, doV0, getRet, allVars, boVars, ccVars>>

\* The call c.GetByID(ctx, id) when the server's answer to its request is
\* doWire, from its start to its return.
GetByIDCall ==
    /\ doPc = "ready"
    /\ doPc' = "looked up"
    /\ getRet' = GetByID(doWire)
    /\ UNCHANGED <<doWire, doV0, doRet, doReads, allVars, boVars, ccVars>>

\* ------------------------------------------------ a call of a BackoffFunc
\* Bounds of the arguments tried: b = num/den.
MaxNum == 5
MaxDen == 2
MaxUnit == 3
MaxRetries == 3

boIdle ==
    /\ boPc = "idle"
    /\ boArg = <<>>
    /\ boRet = 0

boInit ==
    /\ boPc = "ready"
    /\ boArg \in [policy : {"constant", "exponential"},
                  b : [num : 0..MaxNum, den : 1..MaxDen],
                  d : 0..MaxUnit, retries : 0..MaxRetries]
    /\ boRet = 0

\* The call f(retries) of a backoff function f made by ConstantBackoff(d) or
\* ExponentialBackoff(b, d).
BackoffCall ==
    /\ boPc = "ready"
    /\ boPc' = "returned"
    /\ boRet' = CallBackoffFunc([policy |-> boArg.policy, b |-> boArg.b, d |-> boArg.d],
                                boArg.retries)
    /\ UNCHANGED <<boArg, allVars, doVars, ccVars>>

\* --------------------------------- concurrent calls of Client.all
\* Bound of the fetches of one call.
MaxConcFetches == 3

\* The calls running on the client, each on a goroutine of its own.
Calls == {1, 2}

\* The client after NewClient(options...): its four configuration fields.
Clients ==
    {[endpoint |-> "e", token |-> "t", httpClient |-> "h", backoffFunc |-> f] :
        f \in {ExponentialPolicy(2, 1, 1), ConstantPolicy(0)}}

\* What the page fetcher f of a call may answer for page p: a rate limit,
\* another error, a last page, or a page naming the next one.
ConcAnswers == {"limit_reached", "not_found", "last", "next"}

ConcResult(p, answer) ==
    CASE answer = "limit_reached" ->
            [resp |-> ErrorResponse(p), err |-> APIError(ErrorCodeLimitReached, "m")]
      [] answer = "not_found" ->
            [resp |-> ErrorResponse(p), err |-> APIError("not_found", "m")]
      [] answer = "last" ->
            [resp |-> PageResponse(p, PaginationPtr([ZeroPagination EXCEPT !.Page = p])),
             err |-> NoError]
      [] OTHER ->
            [resp |-> PageResponse(p, PaginationPtr([ZeroPagination EXCEPT
                                        !.Page = p, !.NextPage = p + 1])),
             err |-> NoError]

\* The frame of a call of Client.all at its start: var (retries = 0; page = 1)
allFrame0 ==
    [pc |-> "fetch", page |-> 1, retries |-> 0, sleepLeft |-> 0, ret |-> NotReturned]

\* The frame after one turn of the loop in which f(page) gave r, up to the
\* return, the next turn or the call of time.Sleep.
allStep(c, fr, r) ==
    CASE r.err # NoError /\ isLimitReached(r.err) ->
            [fr EXCEPT !.pc = "backoff",
                       !.sleepLeft = CallBackoffFunc(c.backoffFunc, fr.retries)]
      [] r.err # NoError ->
            [fr EXCEPT !.pc = "done", !.ret = allFail(r.resp, r.err)]
      [] isLastPage(r.resp) ->
            [fr EXCEPT !.pc = "done", !.retries = 0, !.ret = allReturn(r.resp)]
      [] OTHER ->
            [fr EXCEPT !.page = allAdvance(fr, r.resp).page,
                       !.retries = allAdvance(fr, r.resp).retries]

\* The frame after time.Sleep returned: retries++; continue
allWake(fr) ==
    [fr EXCEPT !.pc = "fetch", !.page = allRetry(fr).page,
               !.retries = allRetry(fr).retries]

\* allLocals with the bug of one page and one retries for all the calls.
allLocals_shared(cs, i) == cs[1].frame

\* The locals call i works on: those of its own frame.
allLocals(cs, i) == cs[i].frame

ccIdle ==
    /\ client = <<>>
    /\ calls = <<>>

ccInit ==
    /\ client \in Clients
    /\ calls = [i \in Calls |-> [frame |-> allFrame0, log |-> <<>>]]

\* One turn of the loop of one of the calls.
ConcIteration ==
    \E i \in Calls :
        LET fr == allLocals(calls, i)
        IN  /\ fr.pc = "fetch"
            /\ Len(calls[i].log) < MaxConcFetches
            /\ \E answer \in ConcAnswers :
                calls' = [calls EXCEPT ![i] =
                    [frame |-> allStep(client, fr, ConcResult(fr.page, answer)),
                     log |-> Append(@.log, [page |-> fr.page, answer |-> answer])]]
            /\ UNCHANGED <<client, allVars, doVars, boVars>>

\* One time unit of the time.Sleep of one of the calls passes.
ConcSleep ==
    \E i \in Calls :
        LET fr == allLocals(calls, i)
        IN  /\ fr.pc = "backoff"
            /\ fr.sleepLeft > 0
            /\ calls' = [calls EXCEPT ![i].frame =
                            [fr EXCEPT !.sleepLeft = @ - 1]]
            /\ UNCHANGED <<client, allVars, doVars, boVars>>

\* The time.Sleep of one of the calls returns.
ConcWake ==
    \E i \in Calls :
        LET fr == allLocals(calls, i)
        IN  /\ fr.pc = "backoff"
            /\ fr.sleepLeft = 0
            /\ calls' = [calls EXCEPT ![i].frame = allWake(fr)]
            /\ UNCHANGED <<client, allVars, doVars, boVars>>

\* ------------------------------------------------------- specifications
\* Each specification follows one call; the variables of the other calls
\* stay idle, with <<>> for a value that is not there.

\* A call of Client.all.
Init == allInit /\ doIdle /\ boIdle /\ ccIdle

Next == allIteration \/ Sleep \/ Wake \/ Cancel

Spec == Init /\ [][Next]_vars

allIdle ==
    /\ backoffFunc = <<>>
    /\ server = <<>>
    /\ pc = "idle"
    /\ page = 0
    /\ retries = 0
    /\ log = <<>>
    /\ backoffArgs = <<>>
    /\ sleepLeft = 0
    /\ cancelled = FALSE
    /\ allItems = <<>>
    /\ ret = <<>>

\* A call of Client.Do.
DoInit == allIdle /\ doInit /\ boIdle /\ ccIdle

DoNext == DoCall \/ ReadBodyCall \/ GetByIDCall

DoSpec == DoInit /\ [][DoNext]_vars

\* A call of a backoff function.
BackoffInit == allIdle /\ doIdle /\ boInit /\ ccIdle

\* Several calls of Client.all running concurrently on one client.
ConcInit == allIdle /\ doIdle /\ boIdle /\ ccInit

ConcNext == ConcIteration \/ ConcSleep \/ ConcWake

ConcSpec == ConcInit /\ [][ConcNext]_vars

BackoffNext == BackoffCall

BackoffSpec == BackoffInit /\ [][BackoffNext]_vars

\* ================================================================= claims
\* ---- the pagination driver (Spec)
LimitedAt(i) == log[i].err.kind = "Error" /\ log[i].err.Code = "limit_reached"
SucceededAt(i) == log[i].err.kind = "nil"
FailedAt(i) == ~SucceededAt(i) /\ ~LimitedAt(i)
ReportsNoNextPage(resp) ==
    resp.Meta.Pagination.nil \/ resp.Meta.Pagination.v.NextPage = 0

\* C1: after the fetcher answered limit_reached for page p, the next fetch is
\* for the same page p, and when that fetch succeeds and ends the call the
\* driver returns its response and no error; the driver never returns the
\* rate-limit error.
C1_RetrySamePage ==
    /\ \A i \in 1..Len(log) :
        LimitedAt(i) =>
            /\ i < Len(log) => log[i + 1].page = log[i].page
            /\ i = Len(log) => pc \in {"backoff", "fetch"} /\ page = log[i].page
    /\ \A i \in 1..(Len(log) - 1) :
        (LimitedAt(i) /\ SucceededAt(i + 1) /\ i + 1 = Len(log) /\ pc = "done")
            => ret = [resp |-> log[i + 1].resp, err |-> NoError]
    /\ pc = "done" => ~(ret.err.kind = "Error" /\ ret.err.Code = "limit_reached")

C1_Witness ==
    /\ pc = "done"
    /\ Len(log) = 3
    /\ SucceededAt(1) /\ LimitedAt(2) /\ SucceededAt(3)
    /\ log[2].page = 2 /\ log[3].page = 2
    /\ ret = [resp |-> log[3].resp, err |-> NoError]

\* The server's pages 1..n form a chain: page i reports next_page i + 1 and
\* page n reports next_page 0.
ChainOf(n) ==
    \A i \in 1..n :
        /\ ~server[i].nil
        /\ server[i].v.NextPage = IF i < n THEN i + 1 ELSE 0

RECURSIVE ItemsUpTo(_)
ItemsUpTo(n) == IF n = 0 THEN <<>> ELSE ItemsUpTo(n - 1) \o PageItems(n)

\* C2: over a chain of n pages whose fetches all succeed, the driver fetches
\* the pages 1, 2, ..., n in this order and no other, and the call returns the
\* items of all pages in page order and no error after exactly n fetches.
C2_FetchAllChain ==
    \A n \in 1..MaxPage :
        (ChainOf(n) /\ \A i \in 1..Len(log) : SucceededAt(i)) =>
            /\ Len(log) <= n
            /\ \A i \in 1..Len(log) : log[i].page = i
            /\ pc = "done" <=> Len(log) = n
            /\ pc # "done" => pc = "fetch" /\ page = Len(log) + 1
            /\ pc = "done" =>
                FetchAllResult(ret, allItems) =
                    [items |-> ItemsUpTo(n), nil |-> FALSE, err |-> NoError]

C2_Witness ==
    /\ ChainOf(3)
    /\ pc = "done"
    /\ Len(log) = 3
    /\ \A i \in 1..3 : SucceededAt(i) /\ log[i].page = i
    /\ FetchAllResult(ret, allItems).items = <<1, 2, 3, 4, 5, 6>>

\* The k-th fetch is the first that succeeded.
FirstSuccessAt(k) ==
    /\ k \in 1..Len(log)
    /\ SucceededAt(k)
    /\ \A j \in 1..(k - 1) : ~SucceededAt(j)

\* C3 as stated: when the first successful response has no pagination or
\* next_page 0, the driver has made exactly one fetch, for page 1, and has
\* returned that response and no error.
C3_ExactlyOneFetch ==
    \A k \in 1..Len(log) :
        (FirstSuccessAt(k) /\ ReportsNoNextPage(log[k].resp)) =>
            /\ Len(log) = 1
            /\ log[1].page = 1
            /\ pc = "done"
            /\ ret = [resp |-> log[k].resp, err |-> NoError]

\* C3 as amended: when the first successful response has no pagination or
\* next_page 0, the driver makes no fetch after it; every fetch was for page
\* 1, the fetches before it were answered limit_reached (so there is exactly
\* one fetch when no rate limit was hit), and the driver has returned that
\* response and no error.
C3_NoFetchAfterLastPage ==
    \A k \in 1..Len(log) :
        (FirstSuccessAt(k) /\ ReportsNoNextPage(log[k].resp)) =>
            /\ Len(log) = k
            /\ \A j \in 1..k : log[j].page = 1
            /\ \A j \in 1..(k - 1) : LimitedAt(j)
            /\ pc = "done"
            /\ ret = [resp |-> log[k].resp, err |-> NoError]

C3_Witness ==
    /\ pc = "done"
    /\ Len(log) = 1
    /\ SucceededAt(1)
    /\ ~log[1].resp.Meta.Pagination.nil
    /\ log[1].resp.Meta.Pagination.v.NextPage = 0
    /\ ret = [resp |-> log[1].resp, err |-> NoError]

\* C4: a fetcher error that is not an Error with code limit_reached ends the
\* call with this fetch: no backoff was made for it, the same error is
\* returned, and the result is nil whatever was fetched before.
C4_OtherErrorAborts ==
    \A i \in 1..Len(log) :
        FailedAt(i) =>
            /\ i = Len(log)
            /\ pc = "done"
            /\ ret.err = log[i].err
            /\ ret.resp.nil
            /\ FetchAllResult(ret, allItems).nil
            /\ Len(backoffArgs) = Cardinality({j \in 1..Len(log) : LimitedAt(j)})

C4_Witness ==
    /\ pc = "done"
    /\ Len(log) = 2
    /\ SucceededAt(1)
    /\ log[2].err = APIError("not_found", "m")
    /\ ~log[2].resp.nil
    /\ allItems # <<>>
    /\ ret.resp.nil /\ ret.err = log[2].err

\* C5: once the context is cancelled while the driver waits in a backoff
\* sleep with time left, the next thing the call does is return: it does not
\* wait on, and it issues no further fetch.
C5_CancelAbortsBackoff ==
    [][(cancelled /\ pc = "backoff" /\ sleepLeft > 0)
            => (pc' = "done" /\ log' = log)]_vars

\* The number of fetches answered limit_reached among the first j.
LimitedUpTo(j) == Cardinality({i \in 1..j : LimitedAt(i)})

\* The number of fetches answered limit_reached in a row right before
\* fetch j: those since the last successful fetch, or since the start.
LimitedInARowBefore(j) ==
    Cardinality({i \in 1..(j - 1) : \A m \in i..(j - 1) : LimitedAt(m)})

\* C16: the backoff function has been called once for each fetch answered
\* limit_reached, in their order, and its argument was the number of
\* fetches answered limit_reached in a row right before that fetch: 0 for
\* the first retry at the start and after every successful fetch, then
\* 1, 2, ...
C16_BackoffArgument ==
    /\ Len(backoffArgs) = LimitedUpTo(Len(log))
    /\ \A j \in 1..Len(log) :
            LimitedAt(j) => backoffArgs[LimitedUpTo(j)] = LimitedInARowBefore(j)

\* Two retries of page 1, then page 1 fetched, then a first retry of a
\* later page.
C16_Witness ==
    /\ Len(log) >= 4
    /\ LimitedAt(1) /\ LimitedAt(2) /\ SucceededAt(3) /\ LimitedAt(4)
    /\ log[4].page > log[3].page
    /\ backoffArgs = <<0, 1, 0>>

\* Fetch j succeeded after exactly k fetches answered limit_reached in a
\* row right before it.
SucceededAfter(k, j) ==
    /\ SucceededAt(j)
    /\ \A m \in (j - k)..(j - 1) : LimitedAt(m)
    /\ (j - k > 1) => ~LimitedAt(j - k - 1)

\* C17: there is no maximum of retries. When a fetch succeeds after k
\* fetches answered limit_reached in a row, these k + 1 fetches were all for
\* the same page; the call returns an error only when its last fetch failed
\* with an error other than limit_reached, and then that error; as long as
\* every fetch has been answered limit_reached the call has not returned,
\* and after each of them it sleeps and goes on to the retry.
C17_NoRetryLimit ==
    /\ \A j \in 1..Len(log) : \A k \in 0..(j - 1) :
            SucceededAfter(k, j) =>
                \A m \in (j - k)..j : log[m].page = log[j].page
    /\ (pc = "done" /\ ret.err.kind # "nil") =>
            (Len(log) >= 1 /\ FailedAt(Len(log)) /\ ret.err = log[Len(log)].err)
    /\ (\A i \in 1..Len(log) : LimitedAt(i)) => (pc # "done" /\ ret = NotReturned)
    /\ (pc = "backoff") => (LimitedAt(Len(log)) /\ ENABLED (Sleep \/ Wake))

\* The fetcher answered limit_reached for page 1 as often as the bound of
\* the model allows, then succeeded, and the call returned that response.
C17_Witness ==
    /\ Len(log) = MaxFetches
    /\ \A i \in 1..(MaxFetches - 1) : LimitedAt(i) /\ log[i].page = 1
    /\ SucceededAt(MaxFetches) /\ log[MaxFetches].page = 1
    /\ Len(backoffArgs) = MaxFetches - 1
    /\ pc = "done"
    /\ ret.err.kind = "nil" /\ ret.resp = log[MaxFetches].resp

\* The response of fetch j names a next page.
NamesNextPage(j) == SucceededAt(j) /\ ~ReportsNoNextPage(log[j].resp)

\* C18: after a successful fetch that names a next page the next fetch is
\* for that page, be it above, at or below the current one; the call has
\* returned only after a successful fetch with no pagination or with
\* NextPage = 0, or after an error other than limit_reached; as long as every
\* successful fetch named a next page and no such error came, the call has
\* not returned and goes on to fetch.
C18_FollowsNextPage ==
    /\ \A j \in 1..(Len(log) - 1) :
            SucceededAt(j) =>
                log[j + 1].page = log[j].resp.Meta.Pagination.v.NextPage
    /\ (pc = "done") =>
            /\ Len(log) >= 1
            /\ \/ /\ SucceededAt(Len(log))
                  /\ ReportsNoNextPage(log[Len(log)].resp)
                  /\ ret = [resp |-> log[Len(log)].resp, err |-> NoError]
               \/ /\ FailedAt(Len(log))
                  /\ ret.err = log[Len(log)].err
    /\ (\A j \in 1..Len(log) : NamesNextPage(j) \/ LimitedAt(j)) =>
            /\ pc # "done"
            /\ (pc = "fetch" /\ Len(log) < MaxFetches) => ENABLED allIteration

\* The server sends page 1 to page 2 and page 2 back to page 1, and the
\* call has gone round the cycle twice.
C18_Witness ==
    /\ Len(log) >= 4
    /\ \A j \in 1..4 : NamesNextPage(j)
    /\ log[1].page = 1 /\ log[2].page = 2 /\ log[3].page = 1 /\ log[4].page = 2
    /\ pc = "fetch"

\* ---- Client.Do (DoSpec)
\* The call has returned after the server answered with a status and the
\* body was read in full.
DoAnswered == doPc = "returned" /\ doWire.transport = "ok" /\ doWire.read = "ok"
DoErrorStatus == doWire.StatusCode >= 400 /\ doWire.StatusCode <= 599
DoJSON ==
    Len(doWire.Header.ContentType) >= 1
        /\ doWire.Header.ContentType[1] = "application/json"
DoGenericError ==
    [kind |-> "status", Code |-> "", Message |-> "", Status |-> doWire.StatusCode]

\* The body is a JSON object whose error.code is the string "not_found" and
\* whose error.message is a string or left out.
DoBodyNotFound ==
    /\ doWire.Body.doc = "object"
    /\ doWire.Body.error.t = "object"
    /\ doWire.Body.error.code = JStr("not_found")
    /\ doWire.Body.error.message.t \in {"string", "absent"}

\* C6: on a status in 400..599, a JSON body with error.code "not_found"
\* makes Client.Do return the typed Error with Code "not_found" and the
\* body's error.message; a content type that is not JSON makes it return the
\* generic status error.
C6_NotFoundClassified ==
    (DoAnswered /\ DoErrorStatus) =>
        /\ (DoJSON /\ DoBodyNotFound) =>
            doRet.err = [kind |-> "Error", Code |-> "not_found",
                         Message |-> doWire.Body.error.message.s, Status |-> 0]
        /\ ~DoJSON => doRet.err = DoGenericError

\* C7: a typed Error returned by Client.Do has a non-empty Code.
C7_TypedErrorHasCode ==
    (doPc = "returned" /\ doRet.err.kind = "Error") => doRet.err.Code # ""

\* The body holds no structured, parseable error: the content type is not
\* JSON, or the body is no JSON, or error.code and error.message are both
\* empty or left out.
DoNoStructuredError ==
    \/ ~DoJSON
    \/ doWire.Body.doc = "garbage"
    \/ /\ doWire.Body.doc = "object"
       /\ doWire.Body.error.t \in {"absent", "object"}
       /\ doWire.Body.error.code \in {JAbsent, JStr("")}
       /\ doWire.Body.error.message \in {JAbsent, JStr("")}

\* C8: on a status in 400..599 with no structured, parseable error in the
\* body, Client.Do returns the generic status error with the status code.
C8_GenericStatusError ==
    (DoAnswered /\ DoErrorStatus /\ DoNoStructuredError) =>
        doRet.err = DoGenericError

\* C9 as stated: on a status in 400..599 the target v is left as it was, a
\* non-nil error is returned, and the Response is returned with the meta
\* data parsed from its headers and body.
C9_ErrorStatusLeavesTarget ==
    (doPc = "returned" /\ doWire.transport = "ok" /\ DoErrorStatus) =>
        /\ doRet.v = doV0
        /\ doRet.err.kind # "nil"
        /\ ~doRet.resp.nil
        /\ doRet.resp.Meta = readMeta(doWire.Header, doWire.Body).Meta

\* C9 as amended: on a status in 400..599 the target v is left as it was, a
\* non-nil error is returned, and the Response is returned: with the meta
\* data parsed from its headers and body when the body was read in full,
\* with no meta data at all when reading the body failed.
C9_ErrorStatusLeavesTargetRead ==
    (doPc = "returned" /\ doWire.transport = "ok" /\ DoErrorStatus) =>
        /\ doRet.v = doV0
        /\ doRet.err.kind # "nil"
        /\ ~doRet.resp.nil
        /\ doRet.resp.StatusCode = doWire.StatusCode
        /\ doWire.read = "ok" =>
            doRet.resp.Meta = readMeta(doWire.Header, doWire.Body).Meta
        /\ doWire.read = "fail" => doRet.resp.Meta = ZeroMeta

C9_Witness ==
    /\ DoAnswered
    /\ doWire.StatusCode = 599
    /\ doV0.kind = "writer"
    /\ doWire.Body.doc = "object" /\ doWire.Body.payload = "p1"
    /\ doRet.v = doV0
    /\ doRet.err = DoGenericError
    /\ ~doRet.resp.nil

\* The rate-limit header h holds no integer that an int can take: it is
\* missing, is no number, or is a number out of range.
DoNoInt(h) == h.kind \in {"missing", "garbage", "toobig"}

\* The answer of the call with its three rate-limit headers taken away.
DoWireNoRatelimit ==
    [doWire EXCEPT !.Header = [@ EXCEPT !.Limit = [kind |-> "missing", n |-> 0],
                                        !.Remaining = [kind |-> "missing", n |-> 0],
                                        !.Reset = [kind |-> "missing", n |-> 0]]]

\* C11: each of the three rate-limit fields of the returned Response depends
\* on its own header alone: it is the header's integer when there is one
\* and the zero value when the header is missing, is no integer or is out of
\* range; and the headers never change the error Client.Do returns.
C11_RatelimitHeaders ==
    DoAnswered =>
        LET h == doWire.Header
            rl == doRet.resp.Meta.Ratelimit
        IN  /\ rl.Limit = IF DoNoInt(h.Limit) THEN 0 ELSE h.Limit.n
            /\ rl.Remaining = IF DoNoInt(h.Remaining) THEN 0 ELSE h.Remaining.n
            /\ rl.Reset = IF DoNoInt(h.Reset) THEN 0 ELSE h.Reset.n
            /\ rl.HasReset = ~DoNoInt(h.Reset)
            /\ doRet.err = Do(DoWireNoRatelimit, doV0).err

\* A value json.Unmarshal stores into an int field without an error.
DoIntOrNone(j) == j.t \in {"absent", "null", "number"}

\* The body is a JSON object with no "pagination" key under "meta": "meta"
\* is left out, or is an object without the key.
DoNoPaginationKey ==
    /\ doWire.Body.doc = "object"
    /\ \/ doWire.Body.meta.t = "absent"
       \/ doWire.Body.meta.t = "object" /\ doWire.Body.meta.pagination.t = "absent"

\* The body unmarshals into readMeta's struct: it is a JSON object whose
\* "meta" is left out, null or an object, whose "pagination" is left out,
\* null or an object, whose six keys each are left out, null or a number.
DoMetaParses ==
    /\ doWire.Body.doc = "object"
    /\ \/ doWire.Body.meta.t \in {"absent", "null"}
       \/ /\ doWire.Body.meta.t = "object"
          /\ \/ doWire.Body.meta.pagination.t \in {"absent", "null"}
             \/ /\ doWire.Body.meta.pagination.t = "object"
                /\ \A k \in {"page", "per_page", "previous_page", "next_page",
                             "last_page", "total_entries"} :
                        DoIntOrNone(doWire.Body.meta.pagination[k])

DoZeroPagination ==
    [Page |-> 0, PerPage |-> 0, PreviousPage |-> 0, NextPage |-> 0,
     LastPage |-> 0, TotalEntries |-> 0]

\* C12 as stated: after the meta data were parsed, Meta.Pagination is
\* non-nil exactly when the content type is JSON; for a JSON body without a
\* meta.pagination key it is non-nil with all six fields zero; for a
\* response that is not JSON it is nil and parsing the body is not tried.
C12_PaginationIffJSON ==
    DoAnswered =>
        LET pagination == doRet.resp.Meta.Pagination
        IN  /\ ~pagination.nil <=> DoJSON
            /\ (DoJSON /\ DoNoPaginationKey) =>
                    (~pagination.nil /\ pagination.v = DoZeroPagination)
            /\ ~DoJSON => (pagination.nil /\ doRet.err.kind # "meta")

\* C12 as amended: Meta.Pagination is non-nil exactly when the content type
\* is JSON and the body unmarshals; a JSON content type with a body that
\* does not unmarshal makes the parsing fail, with Pagination left nil; for
\* a body without a meta.pagination key that unmarshals Pagination is
\* non-nil with all six fields zero; for a response that is not JSON it is
\* nil and parsing the body is not tried.
C12_PaginationIffJSONParses ==
    DoAnswered =>
        LET pagination == doRet.resp.Meta.Pagination
        IN  /\ ~pagination.nil <=> (DoJSON /\ DoMetaParses)
            /\ (DoJSON /\ ~DoMetaParses) =>
                    (pagination.nil /\ doRet.err.kind = "meta")
            /\ (DoJSON /\ DoNoPaginationKey) =>
                    (~pagination.nil /\ pagination.v = DoZeroPagination)
            /\ ~DoJSON => (pagination.nil /\ doRet.err.kind # "meta")

C12_Witness ==
    /\ DoAnswered
    /\ doWire.Header.ContentType = <<"application/json", "; charset=utf-8">>
    /\ doWire.Body.doc = "object"
    /\ doWire.Body.meta.t = "object"
    /\ doWire.Body.meta.pagination.t = "absent"
    /\ ~doRet.resp.Meta.Pagination.nil
    /\ doRet.resp.Meta.Pagination.v.NextPage = 0

\* C13: once Client.Do has buffered the body and returned, each of any
\* number of consecutive calls of ReadBody returns the whole body as the
\* server sent it, whatever the status, the content type, the target and
\* the error Client.Do returned.
C13_BodyReadableAgain ==
    (doPc = "returned" /\ doWire.transport = "ok" /\ doWire.read = "ok") =>
        \A i \in 1..Len(doReads) : doReads[i] = <<doWire.Body>>

C13_Witness ==
    /\ doPc = "returned"
    /\ Len(doReads) >= 2
    /\ doReads[1] = <<doWire.Body>>
    /\ doReads[2] = doReads[1]
    /\ doWire.StatusCode = 404
    /\ doWire.Header.ContentType = <<"application/json">>
    /\ doRet.err.kind = "Error"
    /\ doV0.kind = "writer"

\* ---- lookup by ID (DoSpec)
\* C14: when the request of GetByID fails with a typed Error with the code
\* "not_found", GetByID returns a nil resource, the Response and a nil
\* error; when it fails with any other error, GetByID returns a nil
\* resource and that error.
C14_NotFoundIsAbsent ==
    (doPc = "looked up" /\ getRet.request.err.kind # "nil") =>
        /\ getRet.resource.nil
        /\ getRet.resp = getRet.request.resp
        /\ IF getRet.request.err.kind = "Error"
                /\ getRet.request.err.Code = "not_found"
           THEN getRet.err.kind = "nil"
           ELSE getRet.err = getRet.request.err

\* The answer of TestCertificateClientGetByIDNotFound: status 404, a JSON
\* body with error.code "not_found" and an empty message.
C14_Witness ==
    /\ doPc = "looked up"
    /\ doWire.StatusCode = 404
    /\ doWire.Header.ContentType = <<"application/json">>
    /\ DoBodyNotFound
    /\ doWire.Body.error.message = JStr("")
    /\ getRet.request.err.kind = "Error"
    /\ getRet.resource.nil
    /\ ~getRet.resp.nil
    /\ getRet.err.kind = "nil"

\* ---- concurrent calls (ConcSpec)
\* The frame of a call that runs alone on client c and whose fetcher gives
\* the answers of lg in turn, after the last of them.
RECURSIVE SoloFrame(_, _)
SoloFrame(c, lg) ==
    IF lg = <<>>
    THEN allFrame0
    ELSE LET before == SoloFrame(c, SubSeq(lg, 1, Len(lg) - 1))
             ready == IF before.pc = "backoff" THEN allWake(before) ELSE before
         IN  allStep(c, ready, ConcResult(ready.page, lg[Len(lg)].answer))

\* The page a call running alone fetches next after the answers of lg, 0
\* when it has returned.
SoloNextPage(c, lg) ==
    CASE SoloFrame(c, lg).pc = "done" -> 0
      [] SoloFrame(c, lg).pc = "backoff" -> allWake(SoloFrame(c, lg)).page
      [] OTHER -> SoloFrame(c, lg).page

\* Call i has made the fetches, and has returned what, a call running alone
\* with the same answers of its fetcher makes and returns.
AsAlone(i) ==
    LET lg == calls[i].log
    IN  /\ \A k \in 1..Len(lg) :
                lg[k].page = SoloNextPage(client, SubSeq(lg, 1, k - 1))
        /\ (calls[i].frame.pc = "done") = (SoloFrame(client, lg).pc = "done")
        /\ calls[i].frame.ret = SoloFrame(client, lg).ret

\* C15: with several calls of Client.all running concurrently on one
\* client, no step writes the client's configuration, and under every
\* interleaving each call makes the fetches and returns the result it makes
\* and returns when it runs alone.
C15_ConcurrentAsAlone ==
    /\ [](\A i \in Calls : AsAlone(i))
    /\ [][client' = client]_vars

\* Call 2 was rate limited and retried while call 1 had moved on to page 2.
C15_Witness ==
    /\ client # <<>>
    /\ Len(calls[1].log) = 2 /\ calls[1].log[2].page = 2
    /\ calls[1].frame.pc = "done" /\ calls[1].frame.ret.err.kind = "nil"
    /\ Len(calls[2].log) = 3
    /\ calls[2].log[1].answer = "limit_reached"
    /\ calls[2].log[2].page = 1
    /\ calls[2].log[3].page = 2
    /\ calls[2].frame.pc = "done" /\ calls[2].frame.ret.err.kind = "Error"

\* ---- the backoff functions (BackoffSpec)
\* C10: ExponentialBackoff(b, d)(n) = pow(b, n) * d, with b = num/den: the
\* result is the product num^n * d / den^n, as far as a duration, a whole
\* number of time units, can hold it.
C10_ExponentialFormula ==
    (boPc = "returned" /\ boArg.policy = "exponential") =>
        boRet = (IntPow(boArg.b.num, boArg.retries) * boArg.d)
                    \div IntPow(boArg.b.den, boArg.retries)

====
